---- MODULE Spec2Model ----
(***************************************************************************)
(* Model of the sample-sheet and index-histogram checkers of               *)
(* flowcells/models.py: FlowCell.get_sample_sheet_errors,                  *)
(* FlowCell.get_index_errors, Library.get_barcode_seq/get_barcode_seq2,    *)
(* and the functools.lru_cache that decorates the two checkers.            *)
(*                                                                         *)
(* Strings are sequences of one-character strings, so that the regular     *)
(* expression of the name check and the all-"N" test are computed.         *)
(* A nullable character field is a record [null, s]: None is distinct      *)
(* from the empty string, as in Python.                                    *)
(***************************************************************************)
EXTENDS Integers, Sequences, FiniteSets, TLC

VARIABLES
    num_lanes,          \* FlowCell.num_lanes
    libraries,          \* FlowCell.libraries: sodar_uuid -> Library row
    index_histograms,   \* FlowCell.index_histograms: <<lane, index_read_no>> -> histogram
    cache,              \* lru_cache entry of each checker for this flow cell
    heap,               \* report objects (Python dicts) allocated so far
    held,               \* the report object each caller holds
    yielded             \* per checker, what its last call since the data changed returned

vars == <<num_lanes, libraries, index_histograms, cache, heap, held, yielded>>

-----------------------------------------------------------------------------
(* Values *)

None == [null |-> TRUE, s |-> <<>>]

Str(chars) == [null |-> FALSE, s |-> chars]

\* Python truthiness of an optional string: None and "" are falsy.
Truthy(v) == ~v.null /\ v.s # <<>>

\* A nullable foreign key to a BarcodeSetEntry; only .sequence is read.
NoBarcode == [null |-> TRUE, sequence |-> None]

BarcodeSetEntry(chars) == [null |-> FALSE, sequence |-> Str(chars)]

\* dict.setdefault / item assignment on a mapping
Put(d, k, v) == [x \in (DOMAIN d) \cup {k} |-> IF x = k THEN v ELSE d[x]]

Get(d, k, default) == IF k \in DOMAIN d THEN d[k] ELSE default

EmptyDict == <<>>

\* A dict with its insertion order: keys in order, and the mapping.
EmptyODict == [keys |-> <<>>, get |-> <<>>]

OPut(d, k, v) ==
    [keys |-> IF k \in DOMAIN d.get THEN d.keys ELSE Append(d.keys, k),
     get  |-> Put(d.get, k, v)]

OGet(d, k, default) == Get(d.get, k, default)

\* d.setdefault(k, []).append(x)
OAppend(d, k, x) == OPut(d, k, Append(OGet(d, k, <<>>), x))

RECURSIVE FoldLeft(_, _, _)
FoldLeft(Op(_, _), acc, seq) ==
    IF seq = <<>> THEN acc ELSE FoldLeft(Op, Op(acc, Head(seq)), Tail(seq))

SeqToSet(seq) == {seq[i] : i \in DOMAIN seq}

\* Every order in which the rows of a set of keys can come back.
Orders(S) ==
    {o \in [1..Cardinality(S) -> S] : \A i, j \in DOMAIN o : i # j => o[i] # o[j]}

-----------------------------------------------------------------------------
(* pretty_range: pagerange.PageRange(value).range.  The display string     *)
(* "1-3, 5" is the list of maximal runs of the distinct page numbers,      *)
(* kept here as the set of <<first, last>> pairs.                          *)

pretty_range(value) ==
    LET pages == SeqToSet(value)
    IN  {<<lo, hi>> \in pages \X pages :
            /\ lo <= hi
            /\ \A n \in lo..hi : n \in pages
            /\ (lo - 1) \notin pages
            /\ (hi + 1) \notin pages}

\* The lanes a rendered range names.
RangeLanes(range) == UNION {r[1]..r[2] : r \in range}

-----------------------------------------------------------------------------
(* Library *)

get_barcode_seq(library) ==
    IF ~library.barcode.null THEN library.barcode.sequence ELSE library.barcode_seq

get_barcode_seq2(library) ==
    IF ~library.barcode2.null THEN library.barcode2.sequence ELSE library.barcode_seq2

\* [a-zA-Z0-9_-]
NameChars ==
    {"a","b","c","d","e","f","g","h","i","j","k","l","m","n","o","p","q","r","s","t",
     "u","v","w","x","y","z","A","B","C","D","E","F","G","H","I","J","K","L","M","N",
     "O","P","Q","R","S","T","U","V","W","X","Y","Z","0","1","2","3","4","5","6","7",
     "8","9","_","-"}

\* re.match("^[a-zA-Z0-9_-]+$", name): "$" also matches before a final newline.
NameMatches(name) ==
    LET n    == Len(name)
        body == IF n > 0 /\ name[n] = "\n" THEN SubSeq(name, 1, n - 1) ELSE name
    IN  /\ Len(body) > 0
        /\ \A i \in DOMAIN body : body[i] \in NameChars

-----------------------------------------------------------------------------
(* Error messages.  A message is its format string together with the       *)
(* values formatted into it: the names or sequences, the plural "s", and   *)
(* the rendered lane range.                                                *)

Dash == <<"-">>

\* value or "-"
OrDash(v) == IF Truthy(v) THEN v.s ELSE Dash

InvalidNameMsg ==
    [text   |-> "Library names may only contain alphanumeric characters, hyphens, and underscores",
     arg    |-> <<>>,
     plural |-> FALSE,
     range  |-> {}]

LaneMsg(bad_lanes) ==
    [text   |-> "Flow cell does not have lane{} #{}",
     arg    |-> <<>>,
     plural |-> Len(bad_lanes) > 1,
     range  |-> pretty_range(bad_lanes)]

NameMsg(library, lanes) ==
    [text   |-> "Library name {} is not unique for lane{} {}",
     arg    |-> <<library.name>>,
     plural |-> Len(lanes) > 1,
     range  |-> pretty_range(lanes)]

BarcodeMsg(library, lanes) ==
    [text   |-> "Barcode combination {}/{} is not unique for lane{} {}",
     arg    |-> <<OrDash(get_barcode_seq(library)), OrDash(get_barcode_seq2(library))>>,
     plural |-> Len(lanes) > 1,
     range  |-> pretty_range(lanes)]

\* result.setdefault(sodar_uuid, {}).setdefault(field, default)
SetDefaultField(result, sodar_uuid, field, default) ==
    LET entry == Get(result, sodar_uuid, EmptyDict)
    IN  Put(result, sodar_uuid, Put(entry, field, Get(entry, field, default)))

\* result.setdefault(sodar_uuid, {}).setdefault(field, []).append(msg)
AppendError(result, sodar_uuid, field, msg) ==
    LET entry == Get(result, sodar_uuid, EmptyDict)
    IN  Put(result, sodar_uuid, Put(entry, field, Append(Get(entry, field, <<>>), msg)))

-----------------------------------------------------------------------------
(* FlowCell.get_sample_sheet_errors, body *)

\* sorted(no for no in library.lane_numbers if no < 1 or no > self.num_lanes)
BadLanesWrongBound(library, nl) ==
    SortSeq(SelectSeq(library.lane_numbers, LAMBDA no : no < 1 \/ no >= nl),
            LAMBDA a, b : a < b)

BadLanes(library, nl) ==
    SortSeq(SelectSeq(library.lane_numbers, LAMBDA no : no < 1 \/ no > nl),
            LAMBDA a, b : a < b)

\* The first loop, one library: name characters, lane numbers, per-lane maps.
GatherLibrary(acc, sodar_uuid, libs, nl) ==
    LET library == libs[sodar_uuid]
        r1 == IF ~NameMatches(library.name)
              THEN AppendError(acc.result, sodar_uuid, "name", InvalidNameMsg)
              ELSE acc.result
        bad_lanes == BadLanes(library, nl)
        r2 == IF bad_lanes # <<>>
              THEN SetDefaultField(r1, sodar_uuid, "lane", <<LaneMsg(bad_lanes)>>)
              ELSE r1
        PerLane(a, lane) ==
            [result      |-> a.result,
             by_name     |-> OAppend(a.by_name, <<lane, library.name>>, sodar_uuid),
             by_barcode  |-> LET k == <<lane, get_barcode_seq(library)>>
                             IN  OPut(a.by_barcode, k,
                                      OPut(OGet(a.by_barcode, k, EmptyODict), sodar_uuid, library)),
             by_barcode2 |-> LET k == <<lane, get_barcode_seq2(library)>>
                             IN  OPut(a.by_barcode2, k,
                                      OPut(OGet(a.by_barcode2, k, EmptyODict), sodar_uuid, library))]
    IN  FoldLeft(PerLane, [acc EXCEPT !.result = r2], library.lane_numbers)

Gather(libs, nl, order) ==
    FoldLeft(LAMBDA acc, u : GatherLibrary(acc, u, libs, nl),
             [result |-> EmptyDict, by_name |-> EmptyODict,
              by_barcode |-> EmptyODict, by_barcode2 |-> EmptyODict],
             order)

\* bad_lanes of the name check: sodar_uuid -> lanes, in the order collected.
NameBadLanesNoCheck(by_name) ==
    FoldLeft(LAMBDA bad, key :
                 FoldLeft(LAMBDA b, u : OAppend(b, u, key[1]), bad, by_name.get[key]),
             EmptyODict, by_name.keys)

NameBadLanes(by_name) ==
    FoldLeft(LAMBDA bad, key :
                 LET lane == key[1]
                     libs_ == by_name.get[key]
                 IN  IF Len(libs_) # 1
                     THEN FoldLeft(LAMBDA b, u : OAppend(b, u, lane), bad, libs_)
                     ELSE bad,
             EmptyODict, by_name.keys)

CheckNames(result, libs, by_name) ==
    LET bad_lanes == NameBadLanes(by_name)
    IN  FoldLeft(LAMBDA r, u : AppendError(r, u, "name", NameMsg(libs[u], bad_lanes.get[u])),
                 result, bad_lanes.keys)

\* clashes of one library within one (lane, seq) group of by_barcode
ClashesOfSetBarcodes(libs_, other_libraries, sodar_uuid) ==
    LET library == libs_.get[sodar_uuid]
    IN  IF Truthy(get_barcode_seq(library)) /\ Truthy(get_barcode_seq2(library))
        THEN (SeqToSet(libs_.keys) \cap SeqToSet(other_libraries.keys)) \ {sodar_uuid}
        ELSE {}

Clashes(libs_, other_libraries, sodar_uuid) ==
    (SeqToSet(libs_.keys) \cap SeqToSet(other_libraries.keys)) \ {sodar_uuid}

\* bad_lanes of the barcode check: sodar_uuid -> lanes, in the order collected.
BarcodeBadLanesPerEntry(by_barcode, by_barcode2) ==
    FoldLeft(LAMBDA bad, key :
                 LET lane == key[1]
                     libs_ == by_barcode.get[key]
                 IN  FoldLeft(LAMBDA b, u :
                                  LET library == libs_.get[u]
                                      other_libraries ==
                                          by_barcode2.get[<<lane, get_barcode_seq2(library)>>]
                                  IN  IF Clashes(libs_, other_libraries, u) # {}
                                      THEN FoldLeft(LAMBDA bb, no : OAppend(bb, u, lane), b,
                                                    SelectSeq(library.lane_numbers,
                                                              LAMBDA no : no = lane))
                                      ELSE b,
                              bad, libs_.keys),
             EmptyODict, by_barcode.keys)

BarcodeBadLanes(by_barcode, by_barcode2) ==
    FoldLeft(LAMBDA bad, key :
                 LET lane == key[1]
                     libs_ == by_barcode.get[key]
                 IN  FoldLeft(LAMBDA b, u :
                                  LET library == libs_.get[u]
                                      other_libraries ==
                                          by_barcode2.get[<<lane, get_barcode_seq2(library)>>]
                                  IN  IF Clashes(libs_, other_libraries, u) # {}
                                      THEN OAppend(b, u, lane)
                                      ELSE b,
                              bad, libs_.keys),
             EmptyODict, by_barcode.keys)

\* The fields a barcode clash is reported under.
BarcodeKeysAlwaysBoth(library) == <<"barcode", "barcode2">>

BarcodeKeys(library) ==
    IF ~Truthy(get_barcode_seq(library)) /\ ~Truthy(get_barcode_seq2(library))
    THEN <<"barcode", "barcode2">>
    ELSE (IF Truthy(get_barcode_seq(library)) THEN <<"barcode">> ELSE <<>>)
         \o (IF Truthy(get_barcode_seq2(library)) THEN <<"barcode2">> ELSE <<>>)

CheckBarcodes(result, libs, by_barcode, by_barcode2) ==
    LET bad_lanes == BarcodeBadLanes(by_barcode, by_barcode2)
    IN  FoldLeft(LAMBDA r, u :
                     FoldLeft(LAMBDA rr, key :
                                  AppendError(rr, u, key, BarcodeMsg(libs[u], bad_lanes.get[u])),
                              r, BarcodeKeys(libs[u])),
                 result, bad_lanes.keys)

\* The report for the libraries libs, read in the order `order`.
SampleSheetErrors(libs, nl, order) ==
    LET g == Gather(libs, nl, order)
        r == CheckNames(g.result, libs, g.by_name)
    IN  CheckBarcodes(r, libs, g.by_barcode, g.by_barcode2)

-----------------------------------------------------------------------------
(* FlowCell.get_index_errors, body *)

IndexMsg(seq, lane, index_read_no) ==
    [text |-> "found barcode {} on lane {} and index read {} in BCLs but not in sample sheet",
     arg  |-> <<seq, lane, index_read_no>>]

\* all(s == "N" for s in seq)
AllN(seq) == \A i \in DOMAIN seq : seq[i] = "N"

\* self.libraries.filter(lane_numbers__contains=[hist.lane])
LibrariesOnLaneOrUnassigned(libs, lane) ==
    {u \in DOMAIN libs :
        lane \in SeqToSet(libs[u].lane_numbers) \/ libs[u].lane_numbers = <<>>}

LibrariesOnLane(libs, lane) ==
    {u \in DOMAIN libs : lane \in SeqToSet(libs[u].lane_numbers)}

\* What one library adds to expected_seqs (a set of at most one string).
ExpectedOfSwapped(library, index_read_no) ==
    LET barcode     == IF index_read_no = 0 THEN library.barcode2 ELSE library.barcode
        barcode_seq == IF index_read_no = 0 THEN library.barcode_seq2 ELSE library.barcode_seq
    IN  IF ~barcode.null THEN {barcode.sequence.s}
        ELSE IF Truthy(barcode_seq) THEN {barcode_seq.s}
        ELSE {}

ExpectedOf(library, index_read_no) ==
    LET barcode     == IF index_read_no = 0 THEN library.barcode ELSE library.barcode2
        barcode_seq == IF index_read_no = 0 THEN library.barcode_seq ELSE library.barcode_seq2
    IN  IF ~barcode.null THEN {barcode.sequence.s}
        ELSE IF Truthy(barcode_seq) THEN {barcode_seq.s}
        ELSE {}

ExpectedSeqs(libs, lane, index_read_no) ==
    UNION {ExpectedOf(libs[u], index_read_no) : u \in LibrariesOnLane(libs, lane)}

\* The errors of one observed sequence of one histogram.
SeqErrors(libs, lane, index_read_no, seq) ==
    IF AllN(seq) THEN <<>>
    ELSE IF seq \notin ExpectedSeqs(libs, lane, index_read_no)
         THEN <<IndexMsg(seq, lane, index_read_no)>>
         ELSE <<>>

IndexErrors(libs, hists) ==
    LET keys == UNION {{<<h[1], h[2], seq>> : seq \in DOMAIN hists[h]} : h \in DOMAIN hists}
        bad  == {k \in keys : SeqErrors(libs, k[1], k[2], k[3]) # <<>>}
    IN  [k \in bad |-> SeqErrors(libs, k[1], k[2], k[3])]

-----------------------------------------------------------------------------
(* The two checkers as called: @functools.lru_cache() keeps, per flow      *)
(* cell, the dict the body returned and hands the same dict to every       *)
(* later caller until the entry is evicted.                                *)

Callers == {"c1", "c2"}

Uuids == {"u1", "u2"}

NoRef == 0

\* Enough object identities for every caller and both cache entries.
Refs == 1..(Cardinality(Callers) + 2)

Kinds == {"sheet", "index"}

Report(c) == heap[held[c]].val

Holds(c, kind) == held[c] # NoRef /\ heap[held[c]].kind = kind

\* Reference counting: a dict nobody refers to any more is freed.
Live(h, cch, hld) ==
    [r \in {x \in DOMAIN h : (\E k \in Kinds : cch[k] = x) \/ (\E c \in Callers : hld[c] = x)}
        |-> h[r]]

NewRef == CHOOSE r \in Refs : r \notin DOMAIN heap /\ \A q \in Refs : q < r => q \in DOMAIN heap

NotYielded == [set |-> FALSE, val |-> EmptyDict]

\* What the check of the lanes does to the stored library rows: nothing.
LibrariesDropBadLanes(libs, nl) ==
    [u \in DOMAIN libs |->
        [libs[u] EXCEPT !.lane_numbers = SelectSeq(@, LAMBDA no : no >= 1 /\ no <= nl)]]

LibrariesAfterCheck(libs, nl) == libs

\* The wrapper finds the flow cell in its cache: the cached dict itself.
Cached(kind, c) ==
    /\ cache[kind] # NoRef
    /\ held' = [held EXCEPT ![c] = cache[kind]]
    /\ cache' = cache
    /\ heap' = Live(heap, cache', held')
    /\ yielded' = [yielded EXCEPT ![kind] = [set |-> TRUE, val |-> heap[cache[kind]].val]]

\* A miss: the body runs, its dict is stored in the cache and returned.
Computed(kind, c, val) ==
    /\ cache[kind] = NoRef
    /\ held' = [held EXCEPT ![c] = NewRef]
    /\ cache' = [cache EXCEPT ![kind] = NewRef]
    /\ heap' = Live(Put(heap, NewRef, [kind |-> kind, val |-> val]), cache', held')
    /\ yielded' = [yielded EXCEPT ![kind] = [set |-> TRUE, val |-> val]]

get_sample_sheet_errors(c) ==
    /\ \/ Cached("sheet", c)
       \/ \E order \in Orders(DOMAIN libraries) :
              Computed("sheet", c, SampleSheetErrors(libraries, num_lanes, order))
    /\ libraries' = LibrariesAfterCheck(libraries, num_lanes)
    /\ UNCHANGED <<num_lanes, index_histograms>>

get_index_errors(c) ==
    /\ \/ Cached("index", c)
       \/ Computed("index", c, IndexErrors(libraries, index_histograms))
    /\ UNCHANGED <<num_lanes, libraries, index_histograms>>

\* lru_cache(maxsize=128): calls on other flow cells push the entry out.
CacheEvict(kind) ==
    /\ cache[kind] # NoRef
    /\ cache' = [cache EXCEPT ![kind] = NoRef]
    /\ heap' = Live(heap, cache', held)
    /\ UNCHANGED <<num_lanes, libraries, index_histograms, held, yielded>>

\* A caller changes the dict it was handed (here: report.clear()).
ModifyReport(c) ==
    /\ held[c] # NoRef
    /\ heap[held[c]].val # EmptyDict
    /\ heap' = [heap EXCEPT ![held[c]].val = EmptyDict]
    /\ UNCHANGED <<num_lanes, libraries, index_histograms, cache, held, yielded>>

InitCalls ==
    /\ cache = [k \in Kinds |-> NoRef]
    /\ heap = EmptyDict
    /\ held = [c \in Callers |-> NoRef]
    /\ yielded = [k \in Kinds |-> NotYielded]

-----------------------------------------------------------------------------
(* Inputs *)

MaxLaneLen == 2

LaneNos == {0, 1, 2}

NumLanesChoices == {1, 2}

\* All lists of at most MaxLaneLen lane numbers drawn from S.
LaneLists(S) == UNION {[1..n -> S] : n \in 0..MaxLaneLen}

Names == {<<"a">>, <<"b">>, <<"a", " ">>}

Unset == {<<NoBarcode, None>>}

\* Every family of library rows over a subset of Uuids, each row drawn from Rows.
LibrarySets(Rows) == UNION {[S -> Rows] : S \in SUBSET Uuids}

Library(name, lane_numbers, b1, b2) ==
    [name |-> name, lane_numbers |-> lane_numbers,
     barcode |-> b1[1], barcode_seq |-> b1[2],
     barcode2 |-> b2[1], barcode_seq2 |-> b2[2]]

-----------------------------------------------------------------------------
(* Names and lane numbers: libraries without barcodes. *)

NameRows ==
    {Library(n, l, b, b) : n \in Names, l \in LaneLists(LaneNos), b \in Unset}

InitNames ==
    /\ num_lanes \in NumLanesChoices
    /\ libraries \in LibrarySets(NameRows)
    /\ index_histograms = EmptyDict
    /\ InitCalls

NextSheet == \E c \in Callers : get_sample_sheet_errors(c)

SpecNames == InitNames /\ [][NextSheet]_vars

-----------------------------------------------------------------------------
(* Barcodes: libraries with distinct valid names on valid lanes, each       *)
(* barcode slot unset (None or ""), a literal, or a reference that          *)
(* overrides a literal.                                                     *)

SeqA == <<"A">>

SeqC == <<"C">>

Barcode1Choices ==
    {<<NoBarcode, None>>, <<NoBarcode, Str(<<>>)>>, <<NoBarcode, Str(SeqA)>>,
     <<NoBarcode, Str(SeqC)>>, <<BarcodeSetEntry(SeqA), Str(SeqC)>>}

Barcode2Choices ==
    {<<NoBarcode, None>>, <<NoBarcode, Str(<<>>)>>, <<NoBarcode, Str(SeqA)>>,
     <<NoBarcode, Str(SeqC)>>, <<BarcodeSetEntry(SeqC), Str(SeqA)>>}

ValidLaneNos == {1, 2}

LibraryName == [u \in Uuids |-> IF u = "u1" THEN <<"a">> ELSE <<"b">>]

BarcodeRows ==
    {Library(<<>>, l, b1, b2) :
        l \in LaneLists(ValidLaneNos), b1 \in Barcode1Choices, b2 \in Barcode2Choices}

Named(rows) == [u \in DOMAIN rows |-> [rows[u] EXCEPT !.name = LibraryName[u]]]

InitBarcodes ==
    /\ num_lanes = 2
    /\ libraries \in {Named(rows) : rows \in LibrarySets(BarcodeRows)}
    /\ index_histograms = EmptyDict
    /\ InitCalls

SpecBarcodes == InitBarcodes /\ [][NextSheet]_vars

-----------------------------------------------------------------------------
(* Index histograms: up to two histograms, of lane 1 / index read 0 and of *)
(* lane 2 / index read 1, over libraries on lanes 1 and 2.                 *)

SeqNN == <<"N", "N">>

ObservedSeqs == {SeqA, SeqC, SeqNN}

Counts == {1, 2}

HistKeys == {<<1, 0>>, <<2, 1>>}

\* JSON objects sequence -> count
Histograms ==
    UNION {{[seq \in S |-> n] : n \in Counts} : S \in (SUBSET ObservedSeqs) \ {{}}}

IndexLaneLists == {<<>>, <<1>>, <<2>>, <<1, 2>>}

IndexRows ==
    {Library(<<>>, l, b1, b2) :
        l \in IndexLaneLists,
        b1 \in {<<NoBarcode, None>>, <<NoBarcode, Str(SeqA)>>,
                <<BarcodeSetEntry(SeqA), Str(SeqC)>>},
        b2 \in {<<NoBarcode, Str(<<>>)>>, <<NoBarcode, Str(SeqC)>>}}

InitIndex ==
    /\ num_lanes = 2
    /\ libraries \in {Named(rows) : rows \in LibrarySets(IndexRows)}
    /\ index_histograms \in UNION {[K -> Histograms] : K \in SUBSET HistKeys}
    /\ InitCalls

NextIndex == \E c \in Callers : get_index_errors(c)

SpecIndex == InitIndex /\ [][NextIndex]_vars

-----------------------------------------------------------------------------
(* Names, lane numbers and barcodes together, with an index histogram: a    *)
(* flow cell of one lane whose libraries name lanes 1 and 2, under a valid  *)
(* or an invalid name, each barcode slot unset or a literal.                *)

MixedNames == {<<"a">>, <<"a", " ">>}

MixedLaneNos == {1, 2}

MixedRows ==
    {Library(n, l, b1, b2) :
        n \in MixedNames, l \in LaneLists(MixedLaneNos),
        b1 \in {<<NoBarcode, None>>, <<NoBarcode, Str(SeqA)>>},
        b2 \in {<<NoBarcode, None>>, <<NoBarcode, Str(<<>>)>>, <<NoBarcode, Str(SeqC)>>}}

StoreHistKeys == {<<1, 0>>}

MixedHistograms == {[seq \in {SeqA, SeqC} |-> 1]}

InitMixed ==
    /\ num_lanes = 1
    /\ libraries \in LibrarySets(MixedRows)
    /\ index_histograms \in UNION {[K -> MixedHistograms] : K \in SUBSET StoreHistKeys}
    /\ InitCalls

NextMixed ==
    \/ \E c \in Callers : get_sample_sheet_errors(c)
    \/ \E c \in Callers : get_index_errors(c)

SpecMixed == InitMixed /\ [][NextMixed]_vars

-----------------------------------------------------------------------------
(* The flow cell over time: its libraries and histograms are created,      *)
(* changed and deleted and num_lanes is edited, between calls of the       *)
(* checkers.  Nothing in the source touches the cache when data changes.   *)

StoreUuids == {"u1"}

StoreRows ==
    {Library(<<"a">>, <<1>>, <<NoBarcode, Str(SeqA)>>, <<NoBarcode, None>>),
     Library(<<"a">>, <<1, 2>>, <<NoBarcode, Str(SeqC)>>, <<NoBarcode, None>>)}

StoreHistograms ==
    {[seq \in {SeqA, SeqNN} |-> 1], [seq \in {SeqA, SeqC} |-> 2]}

DataChanged == yielded' = [k \in Kinds |-> NotYielded]

CreateLibrary(u, row) ==
    /\ u \notin DOMAIN libraries
    /\ libraries' = Put(libraries, u, row)
    /\ DataChanged
    /\ UNCHANGED <<num_lanes, index_histograms, cache, heap, held>>

UpdateLibrary(u, row) ==
    /\ u \in DOMAIN libraries
    /\ row # libraries[u]
    /\ libraries' = Put(libraries, u, row)
    /\ DataChanged
    /\ UNCHANGED <<num_lanes, index_histograms, cache, heap, held>>

DeleteLibrary(u) ==
    /\ u \in DOMAIN libraries
    /\ libraries' = [v \in DOMAIN libraries \ {u} |-> libraries[v]]
    /\ DataChanged
    /\ UNCHANGED <<num_lanes, index_histograms, cache, heap, held>>

SetNumLanes(n) ==
    /\ n # num_lanes
    /\ num_lanes' = n
    /\ DataChanged
    /\ UNCHANGED <<libraries, index_histograms, cache, heap, held>>

CreateHistogram(k, h) ==
    /\ k \notin DOMAIN index_histograms
    /\ index_histograms' = Put(index_histograms, k, h)
    /\ DataChanged
    /\ UNCHANGED <<num_lanes, libraries, cache, heap, held>>

UpdateHistogram(k, h) ==
    /\ k \in DOMAIN index_histograms
    /\ h # index_histograms[k]
    /\ index_histograms' = Put(index_histograms, k, h)
    /\ DataChanged
    /\ UNCHANGED <<num_lanes, libraries, cache, heap, held>>

DeleteHistogram(k) ==
    /\ k \in DOMAIN index_histograms
    /\ index_histograms' = [j \in DOMAIN index_histograms \ {k} |-> index_histograms[j]]
    /\ DataChanged
    /\ UNCHANGED <<num_lanes, libraries, cache, heap, held>>

Init ==
    /\ num_lanes \in NumLanesChoices
    /\ libraries = EmptyDict
    /\ index_histograms = EmptyDict
    /\ InitCalls

Next ==
    \/ \E u \in StoreUuids, row \in StoreRows : CreateLibrary(u, row)
    \/ \E u \in StoreUuids, row \in StoreRows : UpdateLibrary(u, row)
    \/ \E u \in StoreUuids : DeleteLibrary(u)
    \/ \E n \in NumLanesChoices : SetNumLanes(n)
    \/ \E k \in StoreHistKeys, h \in StoreHistograms : CreateHistogram(k, h)
    \/ \E k \in StoreHistKeys, h \in StoreHistograms : UpdateHistogram(k, h)
    \/ \E k \in StoreHistKeys : DeleteHistogram(k)
    \/ \E c \in Callers : get_sample_sheet_errors(c)
    \/ \E c \in Callers : get_index_errors(c)
    \/ \E k \in Kinds : CacheEvict(k)

Spec == Init /\ [][Next]_vars

\* The same, with callers that change the reports they were handed.
NextCallers == Next \/ \E c \in Callers : ModifyReport(c)

SpecCallers == Init /\ [][NextCallers]_vars

-----------------------------------------------------------------------------
(* Properties of the sample-sheet report *)

LanesOf(library) == SeqToSet(library.lane_numbers)

\* The messages a report holds for a library under a field.
Field(report, u, f) ==
    IF u \in DOMAIN report /\ f \in DOMAIN report[u] THEN report[u][f] ELSE <<>>

WithText(msgs, text) == SelectSeq(msgs, LAMBDA m : m.text = text)

NotUniqueText == "Library name {} is not unique for lane{} {}"

CollisionText == "Barcode combination {}/{} is not unique for lane{} {}"

SheetReports == {Report(c) : c \in {d \in Callers : Holds(d, "sheet")}}

\* One entry per element of each library's lane_numbers.
LaneEntries ==
    UNION {{<<u, i>> : i \in DOMAIN libraries[u].lane_numbers} : u \in DOMAIN libraries}

EntryKey(e) == <<libraries[e[1]].lane_numbers[e[2]], libraries[e[1]].name>>

LaneNamePairsDistinct ==
    \A e1, e2 \in LaneEntries : e1 # e2 => EntryKey(e1) # EntryKey(e2)

OffendingLanes(u) ==
    {n \in LanesOf(libraries[u]) :
        \E v \in DOMAIN libraries \ {u} :
            n \in LanesOf(libraries[v]) /\ libraries[v].name = libraries[u].name}

\* C4: a library sharing a (lane, name) pair gets exactly one "not unique"
\* message; it lists exactly the offending lanes and says "lanes" iff more
\* than one lane offends.
C4_OneCombinedMessage ==
    \A r \in SheetReports : \A u \in DOMAIN libraries :
        OffendingLanes(u) # {} =>
            LET msgs == WithText(Field(r, u, "name"), NotUniqueText)
            IN  /\ Len(msgs) = 1
                /\ RangeLanes(msgs[1].range) = OffendingLanes(u)
                /\ msgs[1].plural <=> Cardinality(OffendingLanes(u)) > 1

\* C5: a library has a "lane" error iff one of its lane numbers is outside
\* 1..num_lanes; then it has exactly one, listing exactly those numbers.
C5_LaneErrors ==
    \A r \in SheetReports : \A u \in DOMAIN libraries :
        LET bad  == {n \in LanesOf(libraries[u]) : n < 1 \/ n > num_lanes}
            msgs == Field(r, u, "lane")
        IN  /\ bad = {} => msgs = <<>>
            /\ bad # {} => Len(msgs) = 1 /\ RangeLanes(msgs[1].range) = bad

C5_Witness ==
    \E r \in SheetReports : \E u \in DOMAIN libraries :
        /\ \E n \in LanesOf(libraries[u]) : n >= 1 /\ n <= num_lanes
        /\ \E n \in LanesOf(libraries[u]) : n > num_lanes
        /\ Len(Field(r, u, "lane")) = 1

\* Python's dict key of a resolved sequence: None and "" are different keys.
SameBarcodes(u, v) ==
    /\ get_barcode_seq(libraries[u]) = get_barcode_seq(libraries[v])
    /\ get_barcode_seq2(libraries[u]) = get_barcode_seq2(libraries[v])

\* The grouping key of the claim: every empty or absent sequence is "unset".
GroupKey(seq) == IF Truthy(seq) THEN seq.s ELSE <<>>

SameBarcodeGroups(u, v) ==
    /\ GroupKey(get_barcode_seq(libraries[u])) = GroupKey(get_barcode_seq(libraries[v]))
    /\ GroupKey(get_barcode_seq2(libraries[u])) = GroupKey(get_barcode_seq2(libraries[v]))

\* The lanes covered by the "Barcode combination" messages of a library.
CollisionLanes(r, u) ==
    UNION {RangeLanes(m.range) :
              m \in SeqToSet(WithText(Field(r, u, "barcode") \o Field(r, u, "barcode2"),
                                      CollisionText))}

\* C1: a library has a barcode error covering lane n iff n is one of its
\* lanes and another library on lane n has the same barcode-1 group and the
\* same barcode-2 group, every empty or absent sequence being the one group
\* "unset".
C1_CollisionIffBothShared ==
    \A r \in SheetReports : \A u \in DOMAIN libraries : \A n \in ValidLaneNos :
        n \in CollisionLanes(r, u) <=>
            /\ n \in LanesOf(libraries[u])
            /\ \E v \in DOMAIN libraries \ {u} :
                  n \in LanesOf(libraries[v]) /\ SameBarcodeGroups(u, v)

\* The libraries in a collision: another library shares a lane and both
\* barcode groups, every empty or absent sequence being the one group "unset".
Involved(u) ==
    \E v \in DOMAIN libraries \ {u} :
        /\ LanesOf(libraries[u]) \cap LanesOf(libraries[v]) # {}
        /\ SameBarcodeGroups(u, v)

\* The libraries the check finds in a collision: it compares the resolved
\* values themselves, None and "" apart.
Detected(u) ==
    \E v \in DOMAIN libraries \ {u} :
        /\ LanesOf(libraries[u]) \cap LanesOf(libraries[v]) # {}
        /\ SameBarcodes(u, v)

AffectedFields(u) ==
    LET set1 == Truthy(get_barcode_seq(libraries[u]))
        set2 == Truthy(get_barcode_seq2(libraries[u]))
    IN  IF ~set1 /\ ~set2 THEN {"barcode", "barcode2"}
        ELSE {f \in {"barcode"} : set1} \cup {f \in {"barcode2"} : set2}

\* C2: a library in a collision has exactly one collision message under each
\* affected field (both fields when neither sequence is set, else the set
\* ones) and none under the other; a library in no collision has none.
C2_OneMessagePerAffectedField ==
    \A r \in SheetReports : \A u \in DOMAIN libraries : \A f \in {"barcode", "barcode2"} :
        Len(WithText(Field(r, u, f), CollisionText)) =
            IF Involved(u) /\ f \in AffectedFields(u) THEN 1 ELSE 0

\* The choice of fields alone, for the collisions the check does find.
FieldsOfDetectedCollisions ==
    \A r \in SheetReports : \A u \in DOMAIN libraries : \A f \in {"barcode", "barcode2"} :
        Len(WithText(Field(r, u, f), CollisionText)) =
            IF Detected(u) /\ f \in AffectedFields(u) THEN 1 ELSE 0

-----------------------------------------------------------------------------
(* Properties of the index report *)

IndexReports == {Report(c) : c \in {d \in Callers : Holds(d, "index")}}

\* The resolved sequence an index read is compared with.
ResolvedFor(library, index_read_no) ==
    IF index_read_no = 0 THEN get_barcode_seq(library) ELSE get_barcode_seq2(library)

ExpectedOnSheet(h) ==
    {ResolvedFor(libraries[u], h[2]).s :
        u \in {v \in DOMAIN libraries :
                  /\ h[1] \in LanesOf(libraries[v])
                  /\ Truthy(ResolvedFor(libraries[v], h[2]))}}

UnexpectedKeys ==
    {k \in UNION {{<<h[1], h[2], seq>> : seq \in DOMAIN index_histograms[h]} :
                     h \in DOMAIN index_histograms} :
        /\ \E i \in DOMAIN k[3] : k[3][i] # "N"
        /\ k[3] \notin ExpectedOnSheet(<<k[1], k[2]>>)}

\* C6: the keys of the index report are exactly the observed, not all-"N",
\* unexpected (lane, index read, sequence) triples, each with one message;
\* nothing in the report depends on the observed counts.
C6_IndexReport ==
    \A r \in IndexReports :
        r = [k \in UnexpectedKeys |-> <<IndexMsg(k[3], k[1], k[2])>>]

C6_Witness ==
    \E r \in IndexReports :
        /\ DOMAIN index_histograms = HistKeys
        /\ DOMAIN index_histograms[<<1, 0>>] = ObservedSeqs
        /\ index_histograms[<<1, 0>>][SeqA] = 2
        /\ DOMAIN index_histograms[<<2, 1>>] = ObservedSeqs
        /\ index_histograms[<<2, 1>>][SeqA] = 1
        /\ DOMAIN r = {<<1, 0, SeqC>>, <<2, 1, SeqA>>}

-----------------------------------------------------------------------------
(* Properties of the checkers as called *)

\* The reports the body computes from the data as it is now.
CurrentSheetReports ==
    {SampleSheetErrors(libraries, num_lanes, order) : order \in Orders(DOMAIN libraries)}

CurrentIndexReport == IndexErrors(libraries, index_histograms)

\* C7: every call returns the report computed from the libraries, histograms
\* and num_lanes the flow cell has at the moment of the call.
C7_CallsReturnCurrentReport ==
    [][\A c \in Callers :
          /\ get_sample_sheet_errors(c) => Report(c)' \in CurrentSheetReports
          /\ get_index_errors(c) => Report(c)' = CurrentIndexReport]_vars

\* C8: a change one caller makes to the report it was handed leaves the
\* report every other caller holds as it was.
C8_ModificationNotVisibleToOthers ==
    [][\A c, d \in Callers :
          (c # d /\ held[c] # NoRef /\ ModifyReport(d)) => Report(c)' = Report(c)]_vars

\* C9: a call of a checker on data that did not change since the checker's
\* previous call returns a report identical to the one that call returned.
C9_SameReportOnUnchangedData ==
    [][\A c \in Callers :
          /\ (get_sample_sheet_errors(c) /\ yielded["sheet"].set)
                => Report(c)' = yielded["sheet"].val
          /\ (get_index_errors(c) /\ yielded["index"].set)
                => Report(c)' = yielded["index"].val]_vars

\* C10: a call of a checker leaves num_lanes, every library and every
\* histogram as they were, whatever it reports.
C10_CallsLeaveDataUnchanged ==
    [][\A c \in Callers :
          (get_sample_sheet_errors(c) \/ get_index_errors(c))
              => UNCHANGED <<num_lanes, libraries, index_histograms>>]_vars

\* A report with a "lane" error is held, taken from the data as it still is,
\* and the out-of-range lane number is still stored.
C10_Witness ==
    \E c \in Callers : \E u \in DOMAIN libraries :
        /\ Holds(c, "sheet")
        /\ Report(c) \in CurrentSheetReports
        /\ Len(Field(Report(c), u, "lane")) = 1
        /\ \E n \in LanesOf(libraries[u]) : n > num_lanes

-----------------------------------------------------------------------------
(* Properties of both reports on libraries without lanes *)

Unassigned == {u \in DOMAIN libraries : libraries[u].lane_numbers = <<>>}

\* The flow cell without the library u.
Without(u) == [v \in DOMAIN libraries \ {u} |-> libraries[v]]

SheetFields == {"name", "lane", "barcode", "barcode2"}

\* C11: a library with an empty lane_numbers gets no "lane", "not unique" or
\* barcode message, and both reports say about every other library and every
\* histogram what they would say if that library were not there.
C11_NoLanesNoEffect ==
    \A u \in Unassigned :
        /\ \A r \in SheetReports :
              /\ Field(r, u, "lane") = <<>>
              /\ WithText(Field(r, u, "name"), NotUniqueText) = <<>>
              /\ Field(r, u, "barcode") = <<>>
              /\ Field(r, u, "barcode2") = <<>>
              /\ \E order \in Orders(DOMAIN Without(u)) :
                    LET r0 == SampleSheetErrors(Without(u), num_lanes, order)
                    IN  \A v \in DOMAIN libraries \ {u} : \A f \in SheetFields :
                            Field(r, v, f) = Field(r0, v, f)
        /\ \A r \in IndexReports : r = IndexErrors(Without(u), index_histograms)

\* Both checkers have returned; a library without lanes has the name and the
\* barcodes of a library on lane 1 that is reported for other reasons, and a
\* barcode-1 sequence the histogram of lane 1 shows as unexpected.
C11_Witness ==
    \E u \in Unassigned : \E v \in DOMAIN libraries \ {u} : \E rs \in SheetReports :
    \E ri \in IndexReports :
        /\ libraries[u].name = libraries[v].name
        /\ SameBarcodes(u, v)
        /\ get_barcode_seq(libraries[u]) = Str(SeqA)
        /\ libraries[v].lane_numbers = <<1, 1>>
        /\ WithText(Field(rs, v, "name"), NotUniqueText) # <<>>
        /\ <<1, 0, SeqC>> \in DOMAIN ri

-----------------------------------------------------------------------------
(* Properties of the sample-sheet report as a whole *)

HasBadLane(u) == \E n \in LanesOf(libraries[u]) : n < 1 \/ n > num_lanes

\* C12: one report holds every error of every library: an out-of-range lane
\* under "lane", an invalid name and a name shared on a lane under "name", a
\* barcode collision under each affected field, whatever else is wrong with
\* the same or another library.
C12_AllErrorsReported ==
    \A r \in SheetReports : \A u \in DOMAIN libraries :
        /\ HasBadLane(u) => Len(Field(r, u, "lane")) = 1
        /\ ~NameMatches(libraries[u].name) =>
              InvalidNameMsg \in SeqToSet(Field(r, u, "name"))
        /\ OffendingLanes(u) # {} => WithText(Field(r, u, "name"), NotUniqueText) # <<>>
        /\ Involved(u) =>
              \A f \in AffectedFields(u) : WithText(Field(r, u, f), CollisionText) # <<>>

\* The same for the collisions the barcode check does find: what the lane
\* check, the two name checks and the barcode check find is all in the one
\* report, side by side.
AllFoundErrorsReported ==
    \A r \in SheetReports : \A u \in DOMAIN libraries :
        /\ HasBadLane(u) => Len(Field(r, u, "lane")) = 1
        /\ ~NameMatches(libraries[u].name) =>
              InvalidNameMsg \in SeqToSet(Field(r, u, "name"))
        /\ OffendingLanes(u) # {} => WithText(Field(r, u, "name"), NotUniqueText) # <<>>
        /\ Detected(u) =>
              \A f \in AffectedFields(u) : WithText(Field(r, u, f), CollisionText) # <<>>

\* A library with all four errors at once, all of them in the report.
AllErrorsAtOnce ==
    \E r \in SheetReports : \E u \in DOMAIN libraries :
        /\ HasBadLane(u) /\ ~NameMatches(libraries[u].name)
        /\ OffendingLanes(u) # {} /\ Detected(u)
        /\ Len(Field(r, u, "lane")) = 1
        /\ Len(Field(r, u, "name")) = 2
        /\ Len(Field(r, u, "barcode")) = 1
        /\ Len(Field(r, u, "barcode2")) = 1

-----------------------------------------------------------------------------
(* Properties of the sample-sheet report on unset barcodes *)

BothSet(u) ==
    Truthy(get_barcode_seq(libraries[u])) /\ Truthy(get_barcode_seq2(libraries[u]))

\* C13 as stated: an index unset on both libraries is no match, so only a
\* library with both sequences set can have a collision message.
C13_UnsetNeverCollides ==
    \A r \in SheetReports : \A u \in DOMAIN libraries :
        CollisionLanes(r, u) # {} => BothSet(u)

\* C13, amended: an unset sequence is a grouping key like any other.  A
\* library with an unset sequence has a collision message covering lane n iff
\* another library on lane n has the same two resolved values, the unset ones
\* unset in the same way (None on both, or "" on both); then it has one
\* message under each affected field.
C13_UnsetCollidesWhenStoredAlike ==
    \A r \in SheetReports : \A u \in DOMAIN libraries :
        ~BothSet(u) =>
            /\ \A n \in ValidLaneNos :
                  n \in CollisionLanes(r, u) <=>
                      /\ n \in LanesOf(libraries[u])
                      /\ \E v \in DOMAIN libraries \ {u} :
                            n \in LanesOf(libraries[v]) /\ SameBarcodes(u, v)
            /\ \A f \in {"barcode", "barcode2"} :
                  Len(WithText(Field(r, u, f), CollisionText)) =
                      IF Detected(u) /\ f \in AffectedFields(u) THEN 1 ELSE 0

\* Two libraries without any barcode on lane 1, each reported under both
\* fields.
C13_Witness ==
    \E r \in SheetReports : \E u, v \in DOMAIN libraries :
        /\ u # v
        /\ \A w \in {u, v} :
              /\ libraries[w].barcode = NoBarcode /\ libraries[w].barcode_seq = None
              /\ libraries[w].barcode2 = NoBarcode /\ libraries[w].barcode_seq2 = None
              /\ 1 \in LanesOf(libraries[w])
              /\ Len(Field(r, w, "barcode")) = 1
              /\ Len(Field(r, w, "barcode2")) = 1
              /\ 1 \in CollisionLanes(r, w)

-----------------------------------------------------------------------------
(* Properties of the sample-sheet report on repeated lane numbers *)

HasRepeatedLane(u) ==
    Len(libraries[u].lane_numbers) > Cardinality(LanesOf(libraries[u]))

\* The lanes on which the barcode check finds u in a collision.
DetectedLanes(u) ==
    {n \in LanesOf(libraries[u]) :
        \E v \in DOMAIN libraries \ {u} : n \in LanesOf(libraries[v]) /\ SameBarcodes(u, v)}

\* C14: the collision message of a library whose lane_numbers repeats a lane
\* number lists each offending lane once and says "lanes" iff more than one
\* lane offends, and the library has one such message under each affected
\* field and none under the other.
C14_RepeatedLaneCountsOnce ==
    \A r \in SheetReports : \A u \in DOMAIN libraries :
        (HasRepeatedLane(u) /\ CollisionLanes(r, u) # {}) =>
            \A f \in {"barcode", "barcode2"} :
                LET msgs == WithText(Field(r, u, f), CollisionText)
                IN  /\ Len(msgs) = IF f \in AffectedFields(u) THEN 1 ELSE 0
                    /\ \A i \in DOMAIN msgs :
                          /\ RangeLanes(msgs[i].range) = DetectedLanes(u)
                          /\ msgs[i].plural <=> Cardinality(DetectedLanes(u)) > 1

\* A library on lane 1 twice, colliding there with a library on lanes 1 and
\* 2: one message for it, saying "lane 1".
C14_Witness ==
    \E r \in SheetReports : \E u, v \in DOMAIN libraries :
        /\ u # v
        /\ libraries[u].lane_numbers = <<1, 1>>
        /\ libraries[v].lane_numbers = <<1, 2>>
        /\ Len(Field(r, u, "barcode")) = 1
        /\ Field(r, u, "barcode2") = <<>>
        /\ ~Field(r, u, "barcode")[1].plural
        /\ RangeLanes(Field(r, u, "barcode")[1].range) = {1}
        /\ Len(Field(r, v, "barcode")) = 1

-----------------------------------------------------------------------------
(* Properties of the sample-sheet report of a single library *)

\* C15: the one library of a flow cell that holds a single library has no
\* "not unique" message under "name" and no collision message under
\* "barcode" or "barcode2".
C15_NoSelfCollision ==
    \A r \in SheetReports : \A u \in DOMAIN libraries :
        DOMAIN libraries = {u} =>
            /\ WithText(Field(r, u, "name"), NotUniqueText) = <<>>
            /\ WithText(Field(r, u, "barcode"), CollisionText) = <<>>
            /\ WithText(Field(r, u, "barcode2"), CollisionText) = <<>>

\* The barcode check alone: a single library never collides with itself on
\* its barcodes, repeated lane numbers or not.
NoSelfBarcodeCollision ==
    \A r \in SheetReports : \A u \in DOMAIN libraries :
        DOMAIN libraries = {u} =>
            /\ WithText(Field(r, u, "barcode"), CollisionText) = <<>>
            /\ WithText(Field(r, u, "barcode2"), CollisionText) = <<>>

====
